---- MODULE Spec2Model ----
(***************************************************************************)
(* Model of the TRMNL Home Assistant dashboard service:                    *)
(*   app/ha/history.py    ProgressCalculator (period, expectation, status) *)
(*   app/ha/discovery.py  GoalDiscovery                                    *)
(*   app/ha/client.py     HAClient                                         *)
(*   app/main.py          render_dashboard                                 *)
(*   app/dashboard/renderer.py  DashboardRenderer                          *)
(*                                                                         *)
(* Time is counted in whole seconds from PERIOD_ANCHOR (2020-01-05 00:00), *)
(* negative before it.  Python floats are modelled as exact rationals      *)
(* [num, den] with den > 0.                                                *)
(***************************************************************************)
EXTENDS Integers, Sequences, FiniteSets, TLC

VARIABLES
    now,            \* the wall clock, datetime.now(), in seconds from the anchor
    ticks,          \* number of clock advances so far
    calls,          \* number of refreshes started so far
    pc,             \* position of the running call
    conn,           \* HAClient.websocket is set (connection open)
    goals,          \* list[Goal] of the running call
    states,         \* result of send_command("get_states"): entity_id -> state
    idx,            \* index of the goal the loop of calculate_progress is at
    day_of_period,  \* local of calculate_progress (line 77)
    cur_count,      \* local current_count of calculate_progress (lines 60-74)
    period,         \* locals of calculate_progress line 46: now, start, end
    result,         \* outcome of the running call
    saved,          \* the files in static/images: filename -> image written
    hist,           \* per entity: the last target_by_now stored and its period
    fn,             \* the pure-function call under test: arguments and result
    fonts,          \* DashboardRenderer.fonts: the roles that have a font
    image,          \* local image of render: what has been drawn on the canvas
    client,         \* one HAClient: _message_id, and its traffic with the remote
    db,             \* the rows of the devices table of DeviceDatabase
    req,            \* the HTTP request the service is serving
    resp            \* the HTTP responses sent so far, oldest first

vars == <<now, ticks, calls, pc, conn, goals, states, idx, day_of_period, cur_count,
          period, result, saved, hist, fn, fonts, image, client, db, req, resp>>

\* the client under test and the endpoints of the service
apiVars == <<client, db, req, resp>>

progVars == <<ticks, calls, pc, conn, goals, states, idx, day_of_period, cur_count,
              period, result, saved, hist, fonts, image, apiVars>>

----------------------------------------------------------------------------
(* Bounds *)

MaxDays == 15       \* clock reads range over anchor - MaxDays .. anchor + MaxDays days
MaxTicks == 3       \* clock advances during one behaviour
MaxCalls == 2       \* successive refreshes in one behaviour

----------------------------------------------------------------------------
(* Time *)

DAY == 86400
HOUR == 3600
PERIOD_ANCHOR == 0
PERIOD_DAYS == 14

\* timedelta.days: whole days, rounded towards minus infinity
TimedeltaDays(secs) == secs \div DAY

\* now.hour * 3600 + now.minute * 60 + now.second
SecondOfDay(t) == t % DAY

\* datetime.replace(hour=0, minute=0, second=0, microsecond=0)
ReplaceMidnight(t) == t - (t % DAY)

----------------------------------------------------------------------------
(* Rationals standing for Python floats *)

Rat(n, d) == [num |-> n, den |-> d]
\* comparisons; values over one denominator are compared by numerator
RatLess(a, b) ==
    IF a.den = b.den THEN a.num < b.num ELSE a.num * b.den < b.num * a.den
RatLE(a, b) ==
    IF a.den = b.den THEN a.num <= b.num ELSE a.num * b.den <= b.num * a.den
RatEq(a, b) ==
    IF a.den = b.den THEN a.num = b.num ELSE a.num * b.den = b.num * a.den
Max(a, b) == IF a >= b THEN a ELSE b

----------------------------------------------------------------------------
(* ProgressCalculator, pure parts *)

get_current_period_rolling(t) ==
    [start |-> ReplaceMidnight(t),
     end |-> ReplaceMidnight(t) + PERIOD_DAYS * DAY - 1]

get_current_period_trunc(t) ==
    LET days == TimedeltaDays(t - PERIOD_ANCHOR)
        periods == IF days >= 0 THEN days \div PERIOD_DAYS
                   ELSE -((-days) \div PERIOD_DAYS)
        start == PERIOD_ANCHOR + periods * PERIOD_DAYS * DAY
    IN  [start |-> start, end |-> start + PERIOD_DAYS * DAY - 1]

\* _get_current_period, with the clock read of line 111 as argument
get_current_period(t) ==
    LET days_since_anchor == TimedeltaDays(t - PERIOD_ANCHOR)
        periods_elapsed == days_since_anchor \div PERIOD_DAYS
        period_start == ReplaceMidnight(
            PERIOD_ANCHOR + periods_elapsed * PERIOD_DAYS * DAY)
        period_end == period_start + PERIOD_DAYS * DAY - 1
    IN  [start |-> period_start, end |-> period_end]

get_day_of_period_trunc(dt) ==
    LET d == dt - PERIOD_ANCHOR
        days == IF d >= 0 THEN d \div DAY ELSE -((-d) \div DAY)
    IN  IF days >= 0 THEN days % PERIOD_DAYS ELSE -((-days) % PERIOD_DAYS)

\* _get_day_of_period
get_day_of_period(dt) ==
    TimedeltaDays(dt - PERIOD_ANCHOR) % PERIOD_DAYS

calculate_target_by_now_stepped(period_target, dop, hours_offset, t) ==
    Rat(period_target.num * Max(0, dop * DAY - hours_offset * HOUR),
        period_target.den * PERIOD_DAYS * DAY)

calculate_target_by_now_unclamped(period_target, dop, hours_offset, t) ==
    Rat(period_target.num * (dop * DAY + SecondOfDay(t) - hours_offset * HOUR),
        period_target.den * PERIOD_DAYS * DAY)

\* _calculate_target_by_now, with the clock read of line 165 as argument t;
\* the result is period_target * (days_elapsed / 14) over a common denominator
calculate_target_by_now(period_target, dop, hours_offset, t) ==
    LET day_secs == SecondOfDay(t)
        elapsed_secs == dop * DAY + day_secs
        offset_secs == hours_offset * HOUR
        clamped == Max(0, elapsed_secs - offset_secs)
    IN  Rat(period_target.num * clamped,
            period_target.den * PERIOD_DAYS * DAY)

calculate_status_le(current, target_by_now) ==
    IF RatLE(Rat(current, 1), target_by_now) THEN "behind" ELSE "on_track"

calculate_status_three_way(current, target_by_now) ==
    LET twice_diff == 2 * (current * target_by_now.den - target_by_now.num)
    IN  IF twice_diff >= target_by_now.den THEN "ahead"
        ELSE IF twice_diff <= -target_by_now.den THEN "behind"
        ELSE "on_track"

\* _calculate_status
calculate_status(current, target_by_now) ==
    IF RatLess(Rat(current, 1), target_by_now) THEN "behind" ELSE "on_track"

\* period_target = goal.config.weekly_target * 2 (history.py line 78)
PeriodTarget(weekly_target) == Rat(weekly_target.num * 2, weekly_target.den)

----------------------------------------------------------------------------
(* DashboardRenderer, pure parts: app/dashboard/renderer.py.  A drawing is *)
(* recorded as the shapes handed to ImageDraw; a rectangle or a line is    *)
(* its coordinate list <<x0, y0, x1, y1>>, both ends included.             *)

X_MARGIN == 20
HEADER_HEIGHT == 62
BOTTOM_MARGIN == 20
BAR_HEIGHT == 20
DIVIDER_Y == 52         \* y of the header divider line
BAR_OFFSET == 22        \* the bar lies this far below the top of its row
LAST_DAY == 13          \* the header never counts past day 14 of 14
WEEKEND_DAYS == {0, 6, 7, 8, 13, 14}

Min(a, b) == IF a <= b THEN a ELSE b

\* Python's None
None == "None"

\* int(r * k) for a float r and an int k: the product, truncated towards 0
IntOfProduct(r, k) ==
    LET q == r.num \div r.den
        m == r.num % r.den
        floor == q * k + (m * k) \div r.den
        exact == (m * k) % r.den = 0
    IN  IF floor >= 0 \/ exact THEN floor ELSE floor + 1

\* the roles, in the order lines 60-63 load them
FontOrder == <<"header", "title", "normal", "small">>
FontRoles == {FontOrder[i] : i \in DOMAIN FontOrder}

\* what _load_fonts meets: whether one of the font paths exists, and which
\* of the four ImageFont.truetype calls on it raises (0: none does)
FontEnvs == [found : BOOLEAN, fails_at : 0..4]

\* _load_fonts: the loop stops at the first path that exists; an exception
\* ends it with the roles assigned so far; only an empty table is replaced
\* by the built-in font
load_fonts(env) ==
    LET loaded == IF ~env.found THEN {}
                  ELSE IF env.fails_at = 0 THEN FontRoles
                  ELSE {FontOrder[i] : i \in 1..(env.fails_at - 1)}
    IN  IF loaded = {} THEN FontRoles ELSE loaded

LoadedFonts == {load_fonts(env) : env \in FontEnvs}

\* (now - period_start).days and the second of the day, over 14 days
\* (render lines 110-113)
time_fraction(t, period_start) ==
    Rat(TimedeltaDays(t - period_start) * DAY + SecondOfDay(t),
        PERIOD_DAYS * DAY)

fill_fraction_unclamped(current, target) ==
    Rat(current * target.den, target.num)

\* min(current / target, 1.0), for target > 0
fill_fraction(current, target) ==
    LET q == Rat(current * target.den, target.num)
    IN  IF RatLess(Rat(1, 1), q) THEN Rat(1, 1) ELSE q

\* target == int(target)
is_integer_target(target) == target.num % target.den = 0

segment_range_inclusive(target) == 1..(target.num \div target.den)

\* range(1, int_target)
segment_range(target) == 1..(target.num \div target.den - 1)

\* x + int(i * segment_width) with segment_width = width / int_target
seg_x(x, i, width, int_target) == x + IntOfProduct(Rat(width, int_target), i)

Line(x0, y0, x1, y1, fill, w) ==
    [xy |-> <<x0, y0, x1, y1>>, fill |-> fill, width |-> w]

on_filled_part_to_end(seg, x, filled_width) == seg <= x + filled_width

\* the test of line 294: the divider lies on the filled part
on_filled_part(seg, x, filled_width) == seg < x + filled_width

\* the test of line 311: the divider lies on the unfilled part
on_unfilled_part(seg, x, filled_width) == seg >= x + filled_width

\* _draw_progress_bar: the filled rectangle, the white dividers on it, the
\* outline, the black dividers on the unfilled part
draw_progress_bar(x, y, width, height, current, target) ==
    IF target.num <= 0
    THEN [fill_fraction |-> Rat(0, 1), filled_width |-> 0, filled |-> <<>>,
          on_filled |-> <<>>, outline |-> <<>>, on_unfilled |-> <<>>]
    ELSE LET ff == fill_fraction(current, target)
             filled_width == IntOfProduct(ff, width)
             int_target == target.num \div target.den
             range == [i \in segment_range(target) |-> i]
             OnFilled(i) ==
                 on_filled_part(seg_x(x, i, width, int_target), x, filled_width)
             OnUnfilled(i) ==
                 on_unfilled_part(seg_x(x, i, width, int_target), x, filled_width)
             LineAt(is, fill, w) ==
                 [k \in DOMAIN is |->
                     Line(seg_x(x, is[k], width, int_target), y,
                          seg_x(x, is[k], width, int_target), y + height,
                          fill, w)]
         IN  [fill_fraction |-> ff,
              filled_width |-> filled_width,
              filled |-> IF filled_width > 0
                         THEN <<<<x, y, x + filled_width, y + height>>>>
                         ELSE <<>>,
              on_filled |-> IF filled_width > 0 /\ is_integer_target(target)
                            THEN LineAt(SelectSeq(range, OnFilled), "white", 2)
                            ELSE <<>>,
              outline |-> <<<<x, y, x + width, y + height>>>>,
              on_unfilled |-> IF is_integer_target(target)
                              THEN LineAt(SelectSeq(range, OnUnfilled),
                                          "black", 1)
                              ELSE <<>>]

draw_goal_row_low(goal, y, width) ==
    [name_xy |-> <<X_MARGIN, y>>,
     name_text |-> <<goal.friendly_name>>,
     bar_y |-> y + BAR_OFFSET + BAR_HEIGHT,
     bar |-> draw_progress_bar(X_MARGIN, y + BAR_OFFSET + BAR_HEIGHT,
                               width - X_MARGIN * 2, BAR_HEIGHT,
                               goal.current_count,
                               PeriodTarget(goal.config.weekly_target))]

\* _draw_goal_row: the name, and the bar 22 pixels below it
draw_goal_row(goal, y, width) ==
    [name_xy |-> <<X_MARGIN, y>>,
     name_text |-> IF goal.config.emoji # None
                   THEN <<goal.config.emoji, goal.friendly_name>>
                   ELSE <<goal.friendly_name>>,
     bar_y |-> y + BAR_OFFSET,
     bar |-> draw_progress_bar(X_MARGIN, y + BAR_OFFSET, width - X_MARGIN * 2,
                               BAR_HEIGHT, goal.current_count,
                               PeriodTarget(goal.config.weekly_target))]

NoArea == [set |-> FALSE]

\* _draw_goals: the rows, evenly spaced below the header, and the area
\* they cover (None for an empty list)
draw_goals(gs, width, height) ==
    IF gs = <<>> THEN [rows |-> <<>>, area |-> NoArea]
    ELSE LET available_height == height - HEADER_HEIGHT - BOTTOM_MARGIN
             num_goals == Len(gs)
             rows == [i \in 1..num_goals |->
                         draw_goal_row(gs[i],
                             HEADER_HEIGHT
                               + IntOfProduct(Rat(available_height, num_goals),
                                              i - 1),
                             width)]
         IN  [rows |-> rows,
              area |-> [set |-> TRUE,
                        top |-> rows[1].bar_y,
                        bottom |-> rows[num_goals].bar_y + BAR_HEIGHT,
                        left |-> X_MARGIN,
                        right |-> width - X_MARGIN]]

draw_time_indicator_unclamped(tf, width, height) ==
    [x |-> X_MARGIN + IntOfProduct(tf, width - X_MARGIN * 2),
     top |-> DIVIDER_Y, bottom |-> height]

\* _draw_time_indicator: the dashed line from the header divider down
draw_time_indicator(tf, width, height) ==
    LET bar_width == width - X_MARGIN * 2
        marker_x == X_MARGIN + IntOfProduct(tf, bar_width)
    IN  [x |-> Max(X_MARGIN + 2, Min(marker_x, width - X_MARGIN - 2)),
         top |-> DIVIDER_Y, bottom |-> height]

\* _draw_midweek_line: the light gray band of the middle weekend
draw_midweek_line(width, height) ==
    LET bar_width == width - X_MARGIN * 2
        midpoint_x == X_MARGIN + IntOfProduct(Rat(7, PERIOD_DAYS), bar_width)
    IN  Line(midpoint_x, DIVIDER_Y, midpoint_x, height, "#d0d0d0",
             IntOfProduct(Rat(2, PERIOD_DAYS), bar_width))

\* _draw_day_ticks: one tick per day boundary 0..14 below the last bar
draw_day_ticks(area) ==
    LET bar_width == area.right - area.left
        tick_x(day) == Max(area.left,
                           Min(area.left
                                 + IntOfProduct(Rat(day, PERIOD_DAYS), bar_width),
                               area.right))
    IN  [k \in 1..(PERIOD_DAYS + 1) |->
            Line(tick_x(k - 1), area.bottom + 3, tick_x(k - 1),
                 area.bottom + 8 + (IF k - 1 \in WEEKEND_DAYS THEN 2 ELSE 0),
                 "black", 2)]

\* _draw_header, with the clock read of line 156 as argument t
draw_header(period_start, period_end, width, t) ==
    [period_text |-> <<period_start, period_end>>,
     day_text |-> Min(TimedeltaDays(t - period_start), LAST_DAY) + 1,
     time_text |-> SecondOfDay(t) \div 60,
     divider |-> Line(X_MARGIN, DIVIDER_Y, width - X_MARGIN, DIVIDER_Y,
                      "black", 2)]

\* Image.convert("1") (renderer line 379) is called without a dither
\* argument, so Pillow converts with its default, Floyd-Steinberg error
\* diffusion: a pixel goes white when its luminance plus the error carried
\* to it exceeds 128, and its own error is handed on, 7/16 to the right and
\* 3/16, 5/16, 1/16 to the row below.  A pixel is an <<r, g, b>> triple, an
\* output pixel is 0 or 255.
WHITE == <<255, 255, 255>>
BLACK == <<0, 0, 0>>
LIGHT_GRAY == <<208, 208, 208>>     \* "#d0d0d0"

\* C integer division, truncating towards 0
CDiv(a, b) == IF a >= 0 THEN a \div b ELSE -((-a) \div b)

CLIP8(v) == IF v < 0 THEN 0 ELSE IF v > 255 THEN 255 ELSE v

\* ITU-R 601-2 luma of an RGB pixel
Luma(rgb) == CDiv(rgb[1] * 299 + rgb[2] * 587 + rgb[3] * 114, 1000)

\* one row: x is the column, l the error carried from the left, l0 and l1
\* the error gathered for the row below, errors the error handed down by
\* the row above (one entry more than the row has pixels)
RECURSIVE DitherRow(_, _, _, _, _, _, _)
DitherRow(in, x, l, l0, l1, errors, out) ==
    IF x > Len(in)
    THEN [out |-> out, errors |-> [errors EXCEPT ![x] = l0]]
    ELSE LET lv == CLIP8(Luma(in[x]) + CDiv(l + errors[x + 1], 16))
             o == IF lv > 128 THEN 255 ELSE 0
             e == lv - o
         IN  DitherRow(in, x + 1, 7 * e, 5 * e + l1, e,
                       [errors EXCEPT ![x] = 3 * e + l0], Append(out, o))

RECURSIVE DitherRows(_, _, _, _)
DitherRows(pixels, y, errors, out) ==
    IF y > Len(pixels) THEN out
    ELSE LET row == DitherRow(pixels[y], 1, 0, 0, 0, errors, <<>>)
         IN  DitherRows(pixels, y + 1, row.errors, Append(out, row.out))

\* _convert_to_monochrome on the pixels of an image
convert_to_monochrome(pixels) ==
    DitherRows(pixels, 1, [j \in 1..(Len(pixels[1]) + 1) |-> 0], <<>>)

NoImage == [stage |-> "none"]

----------------------------------------------------------------------------
(* Input sets *)

\* seconds of the day at which the clock is read
SecondsOfDay == {0, 1, 12 * HOUR, 18 * HOUR, DAY - 1}

\* clock reads around the anchor, before and after it
Instants == {d * DAY + s : d \in (-MaxDays)..MaxDays, s \in SecondsOfDay}

\* weekly_target values: 0.5, 1.5 and 4
WeeklyTargets == {Rat(1, 2), Rat(3, 2), Rat(4, 1)}

\* hours_offset values, in hours
HoursOffsets == {0, 18, 30}

Counts == {0, 1, 2, 3, 9}

NoCall == [op |-> "none"]

\* calls of the pure functions, before they run
FnCalls ==
    [op : {"period", "day"}, done : {FALSE}]
    \cup [op : {"tbn"}, done : {FALSE}, weekly_target : WeeklyTargets,
          dop : 0..PERIOD_DAYS, hours_offset : HoursOffsets]
    \cup [op : {"status"}, done : {FALSE}, weekly_target : WeeklyTargets,
          dop : 0..(PERIOD_DAYS - 1), hours_offset : HoursOffsets,
          current : Counts]

----------------------------------------------------------------------------
(* The state no call has touched *)

Entities == {"counter.a", "counter.b"}
NotStored == [seen |-> FALSE]

NoResult == [kind |-> "none"]

\* HAClient.__init__: no socket, no message sent; the remote has
\* delivered nothing.  A message without an id has id 0 here: no command
\* carries that id
NoMessage == [id |-> 0, success |-> FALSE, result |-> "None"]
NewClient ==
    [message_id |-> 0, sends |-> <<>>, commands |-> 0, deliveries |-> 0,
     discarded |-> 0, last |-> NoMessage]

NoRequest == [endpoint |-> "none"]
NoPeriod == [set |-> FALSE]

ProgIdle ==
    /\ ticks = 0
    /\ calls = 0
    /\ pc = "idle"
    /\ conn = FALSE
    /\ states = <<>>
    /\ idx = 0
    /\ day_of_period = 0
    /\ cur_count = 0
    /\ period = NoPeriod
    /\ result = NoResult
    /\ saved = <<>>
    /\ image = NoImage
    /\ hist = [e \in Entities |-> NotStored]
    /\ client = NewClient
    /\ req = NoRequest
    /\ resp = <<>>

----------------------------------------------------------------------------
(* The pure functions of ProgressCalculator applied to drawn inputs *)

InitFn ==
    /\ now \in Instants
    /\ fn \in FnCalls
    /\ goals = <<>>
    /\ fonts = FontRoles
    /\ ProgIdle
    /\ db = {}

FnGetCurrentPeriod ==
    /\ fn.op = "period" /\ ~fn.done
    /\ fn' = [op |-> "period", done |-> TRUE, out |-> get_current_period(now)]
    /\ UNCHANGED <<now, progVars>>

FnGetDayOfPeriod ==
    /\ fn.op = "day" /\ ~fn.done
    /\ fn' = [op |-> "day", done |-> TRUE, out |-> get_day_of_period(now)]
    /\ UNCHANGED <<now, progVars>>

FnTargetByNow ==
    /\ fn.op = "tbn" /\ ~fn.done
    /\ fn' = [fn EXCEPT !.done = TRUE] @@
             [out |-> calculate_target_by_now(
                 PeriodTarget(fn.weekly_target), fn.dop, fn.hours_offset, now)]
    /\ UNCHANGED <<now, progVars>>

\* history.py lines 78-84 on drawn inputs
FnStatus ==
    /\ fn.op = "status" /\ ~fn.done
    /\ LET tbn == calculate_target_by_now(
                 PeriodTarget(fn.weekly_target), fn.dop, fn.hours_offset, now)
       IN  fn' = [fn EXCEPT !.done = TRUE] @@
                 [target_by_now |-> tbn,
                  out |-> calculate_status(fn.current, tbn)]
    /\ UNCHANGED <<now, progVars>>

NextFn == FnGetCurrentPeriod \/ FnGetDayOfPeriod \/ FnTargetByNow \/ FnStatus

SpecFn == InitFn /\ [][NextFn]_vars

----------------------------------------------------------------------------
(* The drawing functions of DashboardRenderer applied to drawn inputs *)

MaxPix == 4         \* test images are at most MaxPix by MaxPix pixels

\* weekly_target values: 0, 0.5, 0.75, 1.25, 1.5 and 4
BarWeeklyTargets ==
    {Rat(0, 1), Rat(1, 2), Rat(3, 4), Rat(5, 4), Rat(3, 2), Rat(4, 1)}

BarCounts == {-1, 0, 1, 2, 3, 4, 8, 9}

\* canvas widths; 800 is the default of render
CanvasWidths == {44, 45, 47, 100, 800}

CANVAS_HEIGHT == 480

\* a period_start argument that is the running period's (0) or that of the
\* period before or after it
StalePeriods == {-1, 0, 1}

Uniform(c, w, h) == [y \in 1..h |-> [x \in 1..w |-> c]]

\* a white image with the gray band down its middle columns
Banded(w, h) ==
    [y \in 1..h |-> [x \in 1..w |-> IF x = 1 \/ x = w THEN WHITE
                                     ELSE LIGHT_GRAY]]

TestImages ==
    {Uniform(c, w, h) :
        c \in {WHITE, BLACK, LIGHT_GRAY}, w \in 1..MaxPix, h \in 1..MaxPix}
    \cup {Banded(w, h) : w \in 3..MaxPix, h \in 1..MaxPix}

DrawCalls ==
    [op : {"bar"}, done : {FALSE}, width : CanvasWidths,
     current : BarCounts, weekly_target : BarWeeklyTargets]
    \cup [op : {"marker"}, done : {FALSE}, width : CanvasWidths,
          stale : StalePeriods]
    \cup [op : {"mono"}, done : {FALSE}, pixels : TestImages]

InitDraw ==
    /\ fn \in DrawCalls
    /\ now \in IF fn.op = "marker" THEN Instants ELSE {PERIOD_ANCHOR}
    /\ goals = <<>>
    /\ fonts = FontRoles
    /\ ProgIdle
    /\ db = {}

\* _draw_progress_bar as _draw_goal_row calls it (lines 240-254) for the
\* first row of a canvas
DrawBar ==
    /\ fn.op = "bar" /\ ~fn.done
    /\ LET x == X_MARGIN
           y == HEADER_HEIGHT + BAR_OFFSET
           width == fn.width - X_MARGIN * 2
           target == PeriodTarget(fn.weekly_target)
       IN  fn' = [fn EXCEPT !.done = TRUE] @@
                 [x |-> x, y |-> y, bar_width |-> width, target |-> target,
                  out |-> draw_progress_bar(x, y, width, BAR_HEIGHT,
                                            fn.current, target)]
    /\ UNCHANGED <<now, progVars>>

\* render lines 110-113 and 123: the time fraction of the clock read within
\* the period handed in, and the marker drawn for it
DrawMarker ==
    /\ fn.op = "marker" /\ ~fn.done
    /\ LET period_start == get_current_period(now).start
                             + fn.stale * PERIOD_DAYS * DAY
           tf == time_fraction(now, period_start)
       IN  fn' = [fn EXCEPT !.done = TRUE] @@
                 [time_fraction |-> tf,
                  out |-> draw_time_indicator(tf, fn.width, CANVAS_HEIGHT)]
    /\ UNCHANGED <<now, progVars>>

\* render line 130 on the pixels of a small image
ConvertImage ==
    /\ fn.op = "mono" /\ ~fn.done
    /\ fn' = [fn EXCEPT !.done = TRUE] @@
             [out |-> convert_to_monochrome(fn.pixels)]
    /\ UNCHANGED <<now, progVars>>

NextDraw == DrawBar \/ DrawMarker \/ ConvertImage

SpecDraw == InitDraw /\ [][NextDraw]_vars

----------------------------------------------------------------------------
(* Properties of the pure functions *)

PERIOD_SECS == PERIOD_DAYS * DAY

\* sample instants of the period that starts at start
InPeriod(start) ==
    {start + k * DAY + s : k \in 0..(PERIOD_DAYS - 1), s \in SecondsOfDay}

PeriodDone == fn.op = "period" /\ fn.done

\* C3: every instant of the period [period_start, period_start + 14 days)
\* that _get_current_period returned yields that same (period_start,
\* period_end) pair again.
C3_PeriodIdempotent ==
    PeriodDone =>
        \A t \in InPeriod(fn.out.start) \cup {now} :
            get_current_period(t) = fn.out

C3_Witness ==
    /\ PeriodDone
    /\ now # fn.out.start
    /\ now \in InPeriod(fn.out.start)

\* C4: the period computed for now starts a whole number of 14-day periods
\* from the anchor, contains now, ends one second before the next period
\* starts, and the periods before and after it adjoin it without gap or
\* overlap; also for instants before the anchor.
C4_PeriodBoundaries ==
    PeriodDone =>
        /\ (fn.out.start - PERIOD_ANCHOR) % PERIOD_SECS = 0
        /\ fn.out.start <= now
        /\ now < fn.out.start + PERIOD_SECS
        /\ fn.out.end = fn.out.start + PERIOD_SECS - 1
        /\ get_current_period(fn.out.end + 1).start = fn.out.end + 1
        /\ get_current_period(fn.out.start - 1).end = fn.out.start - 1

C4_Witness == PeriodDone /\ now < PERIOD_ANCHOR /\ now # fn.out.start

TbnDone == fn.op = "tbn" /\ fn.done

\* seconds elapsed in the period as _calculate_target_by_now sees them
FnElapsed == fn.dop * DAY + SecondOfDay(now)

\* sample points (day_of_period, clock read) of one period, its end included
ElapsedPoints ==
    {<<d, s>> \in (0..PERIOD_DAYS) \X SecondsOfDay :
        d * DAY + s <= PERIOD_SECS}

\* C5: without a grace offset _calculate_target_by_now returns
\* period_target * (day_of_period + dayFraction) / 14, which is 0 at elapsed
\* time 0, the period target at elapsed time 14 days, and never smaller at a
\* later point of the period.
C5_TargetByNowLinear ==
    (TbnDone /\ fn.hours_offset = 0 /\ FnElapsed <= PERIOD_SECS) =>
        LET pt == PeriodTarget(fn.weekly_target)
        IN  /\ RatEq(fn.out, Rat(pt.num * FnElapsed, pt.den * PERIOD_SECS))
            /\ (FnElapsed = 0 => RatEq(fn.out, Rat(0, 1)))
            /\ (FnElapsed = PERIOD_SECS => RatEq(fn.out, pt))
            /\ \A p \in ElapsedPoints :
                   p[1] * DAY + p[2] >= FnElapsed =>
                       RatLE(fn.out,
                             calculate_target_by_now(pt, p[1], 0, p[2]))

C5_Witness ==
    /\ TbnDone /\ fn.hours_offset = 0
    /\ FnElapsed = PERIOD_SECS
    /\ fn.out.num > 0

\* C7: with a grace offset of h hours the expectation is computed from
\* max(0, day_of_period + dayFraction - h/24) days, so it is never negative
\* and is 0 during the first h hours of the period.
C7_GraceOffsetClamped ==
    TbnDone =>
        LET pt == PeriodTarget(fn.weekly_target)
            off == fn.hours_offset * HOUR
        IN  /\ RatEq(fn.out, Rat(pt.num * Max(0, FnElapsed - off),
                                 pt.den * PERIOD_SECS))
            /\ RatLE(Rat(0, 1), fn.out)
            /\ (FnElapsed <= off => RatEq(fn.out, Rat(0, 1)))

C7_Witness ==
    /\ TbnDone
    /\ fn.hours_offset > 0
    /\ FnElapsed < fn.hours_offset * HOUR
    /\ fn.dop = 1

StatusDone == fn.op = "status" /\ fn.done

\* the goal of C9: weekly target 1.5, count 0, day 0 of the period
C9_Case ==
    /\ StatusDone
    /\ fn.weekly_target = Rat(3, 2)
    /\ fn.current = 0
    /\ fn.dop = 0

\* C9 as claimed: a goal with weekly target 1.5 and count 0 is never
\* classified behind at any instant of day 0 of the period.
C9_NeverBehindDay0 == C9_Case => fn.out # "behind"

\* C9 amended: that goal is not behind exactly while the expectation is 0,
\* that is at 00:00:00 of day 0 and until the grace offset has passed; at
\* every other instant of day 0 it is behind.
C9_BehindIffExpectationPositive ==
    C9_Case =>
        (fn.out = "behind" <=> FnElapsed > fn.hours_offset * HOUR)

C9_Witness ==
    /\ C9_Case
    /\ fn.hours_offset = 0
    /\ FnElapsed = 0
    /\ fn.out = "on_track"

----------------------------------------------------------------------------
(* Data model: app/ha/models.py *)

\* GoalConfig(label_id, weekly_target, emoji, sound): the dataclass has these
\* four attributes and no other
GoalConfig(label_id, weekly_target, emoji, sound) ==
    [label_id |-> label_id, weekly_target |-> weekly_target,
     emoji |-> emoji, sound |-> sound]

\* a GoalConfig object that also carries an hours_offset attribute
WithHoursOffset(config, h) ==
    [a \in DOMAIN config \cup {"hours_offset"} |->
        IF a = "hours_offset" THEN h ELSE config[a]]

\* Goal(entity_id, friendly_name, label_id, config) with the default
\* progress fields
Goal(entity_id, friendly_name, label_id, config) ==
    [entity_id |-> entity_id, friendly_name |-> friendly_name,
     label_id |-> label_id, config |-> config,
     current_count |-> 0, target_by_now |-> Rat(0, 1),
     status |-> "unknown", days_left |-> 0]

\* Python attribute lookup obj.name on a dataclass instance
HasAttr(obj, name) == name \in DOMAIN obj

\* the methods class ProgressCalculator defines
ProgressCalculatorMethods ==
    {"calculate_progress", "_get_current_period", "_get_day_of_period",
     "_calculate_target_by_now", "_calculate_status"}

----------------------------------------------------------------------------
(* GoalDiscovery: app/ha/discovery.py *)

\* what json.loads makes of a label description, or fails to
Descriptions ==
    {[kind |-> "empty"],
     [kind |-> "invalid_json"],
     [kind |-> "array"],
     [kind |-> "object", weekly_target |-> [type |-> "absent"]],
     [kind |-> "object", weekly_target |-> [type |-> "string"]],
     [kind |-> "object", weekly_target |-> [type |-> "number", val |-> Rat(0, 1)]],
     [kind |-> "object", weekly_target |-> [type |-> "number", val |-> Rat(3, 2)]],
     [kind |-> "object", weekly_target |-> [type |-> "number", val |-> Rat(4, 1)]]}

\* _parse_label_config: a GoalConfig, None, or an exception that is not caught
parse_label_config(label) ==
    LET d == label.description
    IN  IF d.kind = "empty" THEN [kind |-> "none"]
        ELSE IF d.kind = "invalid_json" THEN [kind |-> "none"]
        ELSE IF d.kind # "object"
            THEN [kind |-> "raise", exc |-> "AttributeError"]
        ELSE IF \/ d.weekly_target.type # "number"
                \/ d.weekly_target.val.num <= 0
            THEN [kind |-> "none"]
        ELSE [kind |-> "config",
              config |-> GoalConfig(label.name, d.weekly_target.val, None, None)]

StartsWithGoal(name) == name \in {"goal_a", "goal_b"}

\* _get_friendly_name: name, else original_name, else the titled entity id
TitleOf(entity_id) == IF entity_id = "counter.a" THEN "A" ELSE "B"

get_friendly_name(entity) ==
    IF entity.name # None THEN entity.name
    ELSE IF entity.original_name # None THEN entity.original_name
    ELSE TitleOf(entity.entity_id)

\* the goal_configs dict of discover_goals: label_id -> the config of the
\* last goal label with that id that parsed
GoalConfigs(labels) ==
    LET good(lid) == {i \in 1..Len(labels) :
                        /\ StartsWithGoal(labels[i].name)
                        /\ labels[i].label_id = lid
                        /\ parse_label_config(labels[i]).kind = "config"}
        ids == {labels[i].label_id : i \in 1..Len(labels)}
        last(S) == CHOOSE i \in S : \A j \in S : j <= i
    IN  [lid \in {l \in ids : good(l) # {}} |->
            parse_label_config(labels[last(good(lid))]).config]

\* the first label of the entity that is a key of goal_configs, or 0
FirstGoalLabel(entity, configs) ==
    LET hits == {k \in 1..Len(entity.labels) :
                    entity.labels[k] \in DOMAIN configs}
    IN  IF hits = {} THEN 0 ELSE CHOOSE k \in hits : \A j \in hits : k <= j

RECURSIVE GoalsOf(_, _)
GoalsOf(entities, configs) ==
    IF entities = <<>> THEN <<>>
    ELSE LET entity == Head(entities)
             k == FirstGoalLabel(entity, configs)
         IN  (IF k = 0 THEN <<>>
              ELSE <<Goal(entity.entity_id, get_friendly_name(entity),
                          entity.labels[k], configs[entity.labels[k]])>>)
             \o GoalsOf(Tail(entities), configs)

\* discover_goals on the label and entity lists the remote source returned
discover_goals(labels, entities) ==
    IF \E i \in 1..Len(labels) :
          /\ StartsWithGoal(labels[i].name)
          /\ parse_label_config(labels[i]).kind = "raise"
    THEN [kind |-> "raise", exc |-> "AttributeError"]
    ELSE [kind |-> "return", goals |-> GoalsOf(entities, GoalConfigs(labels))]

\* label lists the remote source may return
LabelNames == {"goal_a", "other"}
LabelAt(i) ==
    [label_id : {IF i = 1 THEN "l1" ELSE "l2"}, name : LabelNames,
     description : Descriptions]
LabelLists ==
    {<<>>} \cup {<<a>> : a \in LabelAt(1)}
           \cup {<<a, b>> : a \in LabelAt(1), b \in LabelAt(2)}

\* entity lists the remote source may return
EntityA == [entity_id |-> "counter.a", name |-> None,
            original_name |-> "Gym", labels |-> <<"l1">>]
EntityB == [entity_id |-> "counter.b", name |-> None,
            original_name |-> None, labels |-> <<"x", "l2", "l1">>]
EntityLists == {<<>>, <<EntityA>>, <<EntityA, EntityB>>}

----------------------------------------------------------------------------
(* The clock *)

StartInstants ==
    {-DAY - 2, DAY - 2, 3 * DAY + 12 * HOUR, PERIOD_DAYS * DAY - 2}

TickSteps == {1, 12 * HOUR}

\* time passes between any two steps of the program
Tick ==
    /\ ticks < MaxTicks
    /\ \E step \in TickSteps : now' = now + step
    /\ ticks' = ticks + 1
    /\ UNCHANGED <<calls, pc, conn, goals, states, idx, day_of_period,
                   cur_count, period, result, saved, hist, fn, fonts, image>>
    /\ UNCHANGED apiVars

----------------------------------------------------------------------------
(* What the remote source answers to get_states *)

Missing == [present |-> FALSE]

StateValues ==
    {Missing,
     [present |-> TRUE, state |-> [type |-> "int", val |-> 2],
      friendly_name |-> None],
     [present |-> TRUE, state |-> [type |-> "int", val |-> -1],
      friendly_name |-> "Renamed"],
     [present |-> TRUE, state |-> [type |-> "text"], friendly_name |-> None]}

\* state_map is only ever looked up under the entity ids of the goals
StateMaps(gs) == [{gs[i].entity_id : i \in DOMAIN gs} -> StateValues]

\* int(state.get("state", 0)) with ValueError and TypeError caught
\* (history.py lines 61-65)
ParseCount(state) ==
    IF state.state.type = "int" THEN state.state.val ELSE 0

Raise(exc) == [kind |-> "raise", exc |-> exc]
Return(filename) == [kind |-> "return", filename |-> filename]

----------------------------------------------------------------------------
(* render_dashboard (app/main.py) and calculate_progress (app/ha/history.py) *)

\* main.py lines 56-59: a call starts with a client of its own
RD_Start ==
    /\ pc \in {"idle", "done"}
    /\ calls < MaxCalls
    /\ calls' = calls + 1
    /\ pc' = "connect"
    /\ goals' = <<>>
    /\ states' = <<>>
    /\ idx' = 0
    /\ day_of_period' = 0
    /\ cur_count' = 0
    /\ period' = NoPeriod
    /\ result' = NoResult
    /\ UNCHANGED <<now, ticks, conn, saved, hist, fn, fonts, image>>
    /\ UNCHANGED apiVars

\* main.py line 62, client.py lines 36-61: the socket does not open, or it
\* opens and the handshake fails, or the client is authenticated
RD_Connect ==
    /\ pc = "connect"
    /\ \/ /\ conn' = FALSE
          /\ result' = Raise("ConnectionError")
          /\ pc' = "finally"
       \/ /\ conn' = TRUE
          /\ result' = Raise("Exception")
          /\ pc' = "finally"
       \/ /\ conn' = TRUE
          /\ result' = result
          /\ pc' = "discover"
    /\ UNCHANGED <<now, ticks, calls, goals, states, idx, day_of_period,
                   cur_count, period, saved, hist, fn, fonts, image>>
    /\ UNCHANGED apiVars

\* main.py lines 65-71: discovery fails, finds nothing, or returns goals,
\* the remote source answering with one of the label and entity lists given
RD_DiscoverOver(label_lists, entity_lists) ==
    /\ pc = "discover"
    /\ \/ /\ result' = Raise("Exception")
          /\ goals' = goals
          /\ pc' = "finally"
       \/ \E labels \in label_lists, entities \in entity_lists :
             LET r == discover_goals(labels, entities)
             IN  IF r.kind = "raise"
                 THEN /\ result' = Raise(r.exc)
                      /\ goals' = goals
                      /\ pc' = "finally"
                 ELSE IF r.goals = <<>>
                 THEN /\ result' = Return("no-goals")
                      /\ goals' = r.goals
                      /\ pc' = "finally"
                 ELSE /\ result' = result
                      /\ goals' = r.goals
                      /\ pc' = "cp_enter"
    /\ UNCHANGED <<now, ticks, calls, conn, states, idx, day_of_period,
                   cur_count, period, saved, hist, fn, fonts, image>>
    /\ UNCHANGED apiVars

RD_Discover == RD_DiscoverOver(LabelLists, EntityLists)

\* history.py lines 40-47: the current period is computed and logged
CP_Enter ==
    /\ pc = "cp_enter"
    /\ IF goals = <<>>
       THEN /\ period' = period
            /\ pc' = "rd_week"
       ELSE /\ period' = [set |-> TRUE, now |-> now,
                          start |-> get_current_period(now).start,
                          end |-> get_current_period(now).end]
            /\ pc' = "cp_states"
    /\ UNCHANGED <<now, ticks, calls, conn, goals, states, idx,
                   day_of_period, cur_count, result, saved, hist, fn, fonts,
                   image>>
    /\ UNCHANGED apiVars

\* history.py lines 50-53: get_states answers, or the command fails
CP_GetStates ==
    /\ pc = "cp_states"
    /\ \/ /\ result' = Raise("Exception")
          /\ states' = states
          /\ idx' = idx
          /\ pc' = "finally"
       \/ \E st \in StateMaps(goals) :
             /\ states' = st
             /\ idx' = 1
             /\ result' = result
             /\ pc' = "cp_loop"
    /\ UNCHANGED <<now, ticks, calls, conn, goals, day_of_period, cur_count,
                   period, saved, hist, fn, fonts, image>>
    /\ UNCHANGED apiVars

\* history.py lines 56-77: the counter value of the next goal, its name, and
\* the clock read that yields day_of_period
CP_LoopHead ==
    /\ pc = "cp_loop"
    /\ idx <= Len(goals)
    /\ LET goal == goals[idx]
           state == states[goal.entity_id]
       IN  IF state.present
           THEN /\ cur_count' = ParseCount(state)
                /\ goals' = IF state.friendly_name # None
                            THEN [goals EXCEPT ![idx].friendly_name =
                                                   state.friendly_name]
                            ELSE goals
           ELSE /\ cur_count' = 0
                /\ goals' = goals
    /\ day_of_period' = get_day_of_period(now)
    /\ pc' = "cp_target"
    /\ UNCHANGED <<now, ticks, calls, conn, states, idx, period, result,
                   saved, hist, fn, fonts, image>>
    /\ UNCHANGED apiVars

\* history.py lines 78-93: reading goal.config.hours_offset raises when the
\* config has no such attribute; otherwise the second clock read, the
\* expectation, the status, and the four stores
CP_Target ==
    /\ pc = "cp_target"
    /\ LET goal == goals[idx]
           period_target == PeriodTarget(goal.config.weekly_target)
       IN  IF ~HasAttr(goal.config, "hours_offset")
           THEN /\ result' = Raise("AttributeError")
                /\ pc' = "finally"
                /\ UNCHANGED <<goals, idx, hist>>
           ELSE LET target_by_now == calculate_target_by_now(
                        period_target, day_of_period,
                        goal.config.hours_offset, now)
                    status == calculate_status(cur_count, target_by_now)
                    days_left == (PERIOD_DAYS - 1) - day_of_period
                IN  /\ goals' = [goals EXCEPT ![idx] =
                          [@ EXCEPT !.current_count = cur_count,
                                    !.target_by_now = target_by_now,
                                    !.status = status,
                                    !.days_left = days_left]]
                    /\ hist' = [hist EXCEPT ![goal.entity_id] =
                          [seen |-> TRUE, target_by_now |-> target_by_now,
                           config |-> goal.config,
                           period_start |-> get_current_period(now).start]]
                    /\ idx' = idx + 1
                    /\ pc' = "cp_loop"
                    /\ result' = result
    /\ UNCHANGED <<now, ticks, calls, conn, states, day_of_period, cur_count,
                   period, saved, fn, fonts, image>>
    /\ UNCHANGED apiVars

\* history.py line 100: calculate_progress returns the list
CP_Return ==
    /\ pc = "cp_loop"
    /\ idx > Len(goals)
    /\ pc' = "rd_week"
    /\ UNCHANGED <<now, ticks, calls, conn, goals, states, idx,
                   day_of_period, cur_count, period, result, saved, hist, fn,
                   fonts, image>>
    /\ UNCHANGED apiVars

\* main.py line 78: calculator._get_current_week() is looked up on a class
\* that defines no such method
RD_CurrentWeek ==
    /\ pc = "rd_week"
    /\ IF "_get_current_week" \in ProgressCalculatorMethods
       THEN /\ pc' = "render"
            /\ result' = result
       ELSE /\ pc' = "finally"
            /\ result' = Raise("AttributeError")
    /\ UNCHANGED <<now, ticks, calls, conn, goals, states, idx,
                   day_of_period, cur_count, period, saved, hist, fn, fonts, image>>
    /\ UNCHANGED apiVars

RD_Finally_on_return ==
    /\ pc = "finally"
    /\ conn' = IF result.kind = "raise" THEN conn ELSE FALSE
    /\ pc' = "done"
    /\ states' = <<>>
    /\ idx' = 0
    /\ day_of_period' = 0
    /\ cur_count' = 0
    /\ period' = NoPeriod
    /\ UNCHANGED <<now, ticks, calls, goals, result, saved, hist, fn, fonts, image>>
    /\ UNCHANGED apiVars

\* main.py lines 83-84, client.py lines 63-68: disconnect, then the return
\* value or the exception reaches the caller
RD_Finally ==
    /\ pc = "finally"
    /\ conn' = FALSE
    /\ pc' = "done"
    /\ states' = <<>>
    /\ idx' = 0
    /\ day_of_period' = 0
    /\ cur_count' = 0
    /\ period' = NoPeriod
    /\ UNCHANGED <<now, ticks, calls, goals, result, saved, hist, fn, fonts, image>>
    /\ UNCHANGED apiVars

\* The service as deployed.  Every goal list discovery returns makes
\* CP_Target raise for its first goal, so the steps behind it
\* (CP_Return, RD_CurrentWeek) cannot occur here.
Init ==
    /\ now \in StartInstants
    /\ fn = NoCall
    /\ goals = <<>>
    /\ fonts \in LoadedFonts
    /\ ProgIdle
    /\ db = {}

Next ==
    \/ Tick
    \/ RD_Start
    \/ RD_Connect
    \/ RD_Discover
    \/ CP_Enter
    \/ CP_GetStates
    \/ CP_LoopHead
    \/ CP_Target
    \/ RD_Finally

Spec == Init /\ [][Next]_vars

----------------------------------------------------------------------------
(* main.py lines 73-84 run, refresh after refresh, on the goals of one     *)
(* configuration: the configs are GoalConfig objects as discovery builds   *)
(* them, or carry the hours_offset attribute that calculate_progress       *)
(* reads.                                                                  *)

CalcTargets == {Rat(3, 2), Rat(4, 1)}
CalcOffsets == {0, 18}

CalcConfigs ==
    {GoalConfig("goal_a", w, None, None) : w \in CalcTargets}
    \cup {WithHoursOffset(GoalConfig("goal_a", w, None, None), h) :
             w \in CalcTargets, h \in CalcOffsets}

\* the second goal of a two-goal list
SecondConfigs ==
    {GoalConfig("goal_a", Rat(3, 2), None, None),
     WithHoursOffset(GoalConfig("goal_a", Rat(4, 1), None, None), 0)}

GoalInputs ==
    {<<Goal("counter.a", "Gym", "l1", c)>> : c \in CalcConfigs}
    \cup {<<Goal("counter.a", "Gym", "l1", c), Goal("counter.b", "B", "l1", d)>> :
             c \in {x \in CalcConfigs : x.weekly_target = Rat(4, 1)},
             d \in SecondConfigs}

\* the Goal object discovery builds anew on every refresh
FreshGoal(g) ==
    Goal(g.entity_id, IF g.entity_id = "counter.a" THEN "Gym" ELSE "B",
         g.label_id, g.config)

InitCalc ==
    /\ now \in StartInstants
    /\ fn = NoCall
    /\ goals \in GoalInputs
    /\ fonts = FontRoles
    /\ ProgIdle
    /\ db = {}

\* main.py lines 73-75 on fresh Goal objects
CalcStart ==
    /\ pc \in {"idle", "done"}
    /\ calls < MaxCalls
    /\ calls' = calls + 1
    /\ goals' = [i \in DOMAIN goals |-> FreshGoal(goals[i])]
    /\ conn' = TRUE
    /\ pc' = "cp_enter"
    /\ states' = <<>>
    /\ idx' = 0
    /\ day_of_period' = 0
    /\ cur_count' = 0
    /\ period' = NoPeriod
    /\ result' = NoResult
    /\ UNCHANGED <<now, ticks, saved, hist, fn, fonts, image>>
    /\ UNCHANGED apiVars

NextCalc ==
    \/ Tick
    \/ CalcStart
    \/ CP_Enter
    \/ CP_GetStates
    \/ CP_LoopHead
    \/ CP_Target
    \/ CP_Return
    \/ RD_CurrentWeek
    \/ RD_Finally

SpecCalc == InitCalc /\ [][NextCalc]_vars

----------------------------------------------------------------------------
(* DashboardRenderer as an object: the constructor, then render call after *)
(* render call on goal lists whose progress has been calculated.           *)

\* a goal as calculate_progress leaves it, with the fields render reads
RenderGoal(entity_id, friendly_name, weekly_target, emoji, count) ==
    [Goal(entity_id, friendly_name, "l1",
          GoalConfig("goal_x", weekly_target, emoji, None))
        EXCEPT !.current_count = count, !.status = "on_track"]

RenderGoalLists ==
    {<<>>,
     <<RenderGoal("counter.a", "Gym", Rat(3, 4), None, 3)>>,
     <<RenderGoal("counter.a", "Gym", Rat(3, 2), None, 0)>>,
     <<RenderGoal("counter.a", "Gym", Rat(4, 1), None, 9)>>,
     <<RenderGoal("counter.a", "Gym", Rat(4, 1), None, 3),
       RenderGoal("counter.b", "B", Rat(3, 2), "*", 9)>>,
     <<RenderGoal("counter.a", "Gym", Rat(4, 1), None, 3),
       RenderGoal("counter.b", "B", Rat(3, 2), "*", 1),
       RenderGoal("counter.c", "C", Rat(1, 2), None, 1)>>}

RenderWidths == {44, 800}

\* the name render gives its file: dashboard-%Y%m%d-%H%M%S of a clock read
Filename(t) == [prefix |-> "dashboard", timestamp |-> t]

\* clock reads renders start from: late on a day, and two seconds before
\* a period ends
RenderInstants == {DAY - 2, PERIOD_DAYS * DAY - 2}

\* the arguments of the render calls of one behaviour: the goal list, the
\* canvas size, and whether the period handed in is the running one (0)
\* or the one before it (-1)
RenderCalls ==
    [op : {"render"}, goals : RenderGoalLists, width : RenderWidths,
     height : {CANVAS_HEIGHT}, stale : {-1, 0}]

\* the renderer is not constructed yet
InitRender ==
    /\ now \in RenderInstants
    /\ fn \in RenderCalls
    /\ goals = <<>>
    /\ fonts = {}
    /\ ProgIdle
    /\ db = {}

\* __init__ (lines 24-35): the output directory, then _load_fonts in
\* whatever state the font files are
R_New ==
    /\ pc = "idle"
    /\ fonts = {}
    /\ \E env \in FontEnvs : fonts' = load_fonts(env)
    /\ UNCHANGED <<now, ticks, calls, pc, conn, goals, states, idx,
                   day_of_period, cur_count, period, result, saved, hist,
                   fn, image>>
    /\ UNCHANGED apiVars

\* render lines 103-116: a call with the goal list, the period and the
\* canvas size; the white canvas, the clock read, the time fraction and
\* the midweek band
R_Begin ==
    /\ pc \in {"idle", "done"}
    /\ fonts # {}
    /\ calls < MaxCalls
    /\ LET start == get_current_period(now).start
                      + fn.stale * PERIOD_DAYS * DAY
       IN  /\ period' = [set |-> TRUE, now |-> now, start |-> start,
                         end |-> start + PERIOD_DAYS * DAY - 1]
           /\ image' = [stage |-> "canvas", call |-> calls + 1,
                        width |-> fn.width, height |-> fn.height,
                        time_fraction |-> time_fraction(now, start),
                        midweek |-> draw_midweek_line(fn.width, fn.height)]
    /\ goals' = fn.goals
    /\ calls' = calls + 1
    /\ result' = NoResult
    /\ pc' = "r_header"
    /\ UNCHANGED <<now, ticks, conn, states, idx, day_of_period, cur_count,
                   saved, hist, fn, fonts>>
    /\ UNCHANGED apiVars

\* render line 119: the header is drawn with fonts["title"] and
\* fonts["small"]; a role without a font raises KeyError
R_Header ==
    /\ pc = "r_header"
    /\ IF {"title", "small"} \subseteq fonts
       THEN /\ image' = [stage |-> "header"] @@
                        [header |-> draw_header(period.start, period.end,
                                                image.width, now)] @@ image
            /\ result' = result
            /\ pc' = "r_body"
       ELSE /\ image' = image
            /\ result' = Raise("KeyError")
            /\ pc' = "done"
    /\ UNCHANGED <<now, ticks, calls, conn, goals, states, idx,
                   day_of_period, cur_count, period, saved, hist, fn, fonts>>
    /\ UNCHANGED apiVars

\* render lines 120-130: the goal rows (named with fonts["normal"]), the
\* time marker, the day ticks when there are rows, the conversion
R_Body ==
    /\ pc = "r_body"
    /\ IF goals = <<>> \/ "normal" \in fonts
       THEN LET drawn == draw_goals(goals, image.width, image.height)
            IN  /\ image' = [stage |-> "converted"] @@
                            [rows |-> drawn.rows,
                             marker |-> draw_time_indicator(
                                 image.time_fraction, image.width,
                                 image.height),
                             ticks |-> IF drawn.area.set
                                       THEN draw_day_ticks(drawn.area)
                                       ELSE <<>>,
                             mode |-> "1"] @@ image
                /\ result' = result
                /\ pc' = "r_save"
       ELSE /\ image' = image
            /\ result' = Raise("KeyError")
            /\ pc' = "done"
    /\ UNCHANGED <<now, ticks, calls, conn, goals, states, idx,
                   day_of_period, cur_count, period, saved, hist, fn, fonts>>
    /\ UNCHANGED apiVars

\* render lines 132-140: the file is named after a second clock read and
\* written, replacing whatever file has that name
R_Save ==
    /\ pc = "r_save"
    /\ LET filename == Filename(now)
       IN  /\ saved' = [f \in DOMAIN saved \cup {filename} |->
                           IF f = filename THEN image ELSE saved[f]]
           /\ result' = Return(filename)
    /\ pc' = "done"
    /\ UNCHANGED <<now, ticks, calls, conn, goals, states, idx,
                   day_of_period, cur_count, period, hist, fn, fonts, image>>
    /\ UNCHANGED apiVars

NextRender ==
    \/ Tick
    \/ R_New
    \/ R_Begin
    \/ R_Header
    \/ R_Body
    \/ R_Save

SpecRender == InitRender /\ [][NextRender]_vars

----------------------------------------------------------------------------
(* Properties of render_dashboard and calculate_progress *)

\* the remote source refused or failed a command, or could not be reached
RemoteFailed ==
    result \in {Raise("Exception"), Raise("ConnectionError")}

\* C1: a render_dashboard call for which discovery returned at least one
\* goal, and which the remote source answered throughout, ends by returning
\* the name of an image file it has written.
C1_ReturnsFreshRender ==
    (pc = "done" /\ goals # <<>> /\ ~RemoteFailed) =>
        /\ result.kind = "return"
        /\ result.filename \in DOMAIN saved

\* C2: on the goals discovery produced, once get_states has answered,
\* calculate_progress does not raise and leaves every goal of the list with
\* its progress fields filled in.
C2_ProgressNeverRaises ==
    (pc = "finally" /\ goals # <<>> /\ ~RemoteFailed) =>
        /\ result.kind # "raise"
        /\ \A i \in DOMAIN goals : goals[i].status # "unknown"

Classified(g) == g.status # "unknown"

C10_DaysLeftRange ==
    /\ pc = "cp_target" => day_of_period \in 0..(PERIOD_DAYS - 1)
    /\ (pc = "cp_loop" /\ idx > 1) =>
          goals[idx - 1].days_left = (PERIOD_DAYS - 1) - day_of_period
    /\ \A i \in DOMAIN goals :
          Classified(goals[i]) => goals[i].days_left \in 0..(PERIOD_DAYS - 1)

C10_Witness ==
    /\ pc = "cp_loop"
    /\ idx > 1
    /\ now < PERIOD_ANCHOR
    /\ Classified(goals[idx - 1])
    /\ goals[idx - 1].days_left = 1

\* the remote source has no state for the entity of goals[i], or the state
\* it has does not parse as an integer
NoCount(i) ==
    LET state == states[goals[i].entity_id]
    IN  ~state.present \/ state.state.type # "int"

\* C11: when the goal the loop is at has no state, or a state that is no
\* integer, calculate_progress raises nothing on it: the goal's
\* current_count is 0 and the loop goes on to the goals after it.
C11_NoCountContinues ==
    \A i \in DOMAIN goals :
        (states # <<>> /\ idx = i /\ NoCount(i)) =>
            /\ ~(pc = "finally" /\ result.kind = "raise")
            /\ goals[i].current_count = 0

----------------------------------------------------------------------------
(* Properties of the drawing functions *)

BarDone == fn.op = "bar" /\ fn.done

\* the bar call is one the contract speaks of: current >= 0 and target > 0
BarInContract == BarDone /\ fn.current >= 0 /\ fn.target.num > 0

\* C13: for current >= 0 and target > 0 the fill fraction is
\* min(current / target, 1) and lies in [0, 1]; the filled width is the
\* floor of fraction * width and lies in 0..width; it is the whole width
\* when current >= target; and the filled rectangle lies within the
\* outline [x, x + width] x [y, y + height].
C13_FillWithinBar ==
    BarInContract =>
        LET f == fn.out.fill_fraction
            fw == fn.out.filled_width
            ratio == Rat(fn.current * fn.target.den, fn.target.num)
            full == RatLE(Rat(1, 1), ratio)
        IN  /\ RatLE(Rat(0, 1), f) /\ RatLE(f, Rat(1, 1))
            /\ IF full THEN RatEq(f, Rat(1, 1)) ELSE RatEq(f, ratio)
            /\ fw \in 0..fn.bar_width
            /\ fw * f.den <= f.num * fn.bar_width
            /\ f.num * fn.bar_width < (fw + 1) * f.den
            /\ full => fw = fn.bar_width
            /\ fn.out.outline = <<<<fn.x, fn.y, fn.x + fn.bar_width,
                                    fn.y + BAR_HEIGHT>>>>
            /\ \A k \in DOMAIN fn.out.filled :
                  LET r == fn.out.filled[k]
                  IN  /\ r[1] = fn.x /\ r[2] = fn.y
                      /\ r[3] <= fn.x + fn.bar_width
                      /\ r[4] = fn.y + BAR_HEIGHT

C13_Witness ==
    /\ BarInContract
    /\ fn.current = 9
    /\ fn.target = Rat(8, 1)
    /\ fn.bar_width = 760
    /\ fn.out.filled = <<<<X_MARGIN, fn.y, X_MARGIN + 760, fn.y + BAR_HEIGHT>>>>

\* the divider lines of a bar, on the filled and on the unfilled part
DividerCount == Len(fn.out.on_filled) + Len(fn.out.on_unfilled)

IntTarget == fn.target.num \div fn.target.den

\* C14 as stated: the number of segment dividers equals the period target
\* when that is a whole number, and no divider is drawn when it has a
\* fractional part.
C14_DividerCountIsTarget ==
    (BarDone /\ fn.target.num > 0) =>
        IF is_integer_target(fn.target)
        THEN DividerCount = IntTarget
        ELSE DividerCount = 0

\* C14, amended: a whole period target T gets T - 1 dividers, one at each
\* internal boundary x + floor(i * width / T), i = 1..T-1, which makes T
\* segments; a fractional period target gets none.
C14_OneDividerPerInternalBoundary ==
    (BarDone /\ fn.target.num > 0) =>
        LET lines == fn.out.on_filled \o fn.out.on_unfilled
        IN  IF is_integer_target(fn.target)
            THEN /\ Len(lines) = IntTarget - 1
                 /\ \A i \in 1..(IntTarget - 1) :
                       lines[i].xy[1] = fn.x + (i * fn.bar_width) \div IntTarget
            ELSE lines = <<>>

C14_Witness ==
    /\ BarDone
    /\ fn.target = Rat(8, 1)
    /\ fn.current = 3
    /\ fn.bar_width = 760
    /\ Len(fn.out.on_filled) = 2
    /\ Len(fn.out.on_unfilled) = 5

\* C15: whatever the time fraction, also below 0 or above 1, and for every
\* canvas width from 44 on, the marker lies strictly inside the bar:
\* x + 1 < marker_x < x + width - 1, with x = X_MARGIN and width the
\* canvas width less both margins.
C15_MarkerInsideBar ==
    (fn.op = "marker" /\ fn.done) =>
        LET x == X_MARGIN
            width == fn.width - X_MARGIN * 2
        IN  x + 1 < fn.out.x /\ fn.out.x < x + width - 1

C15_Witness ==
    /\ fn.op = "marker" /\ fn.done
    /\ fn.width = 44
    /\ RatLess(Rat(1, 1), fn.time_fraction)
    /\ fn.out.x = X_MARGIN + 2

MonoDone == fn.op = "mono" /\ fn.done

Pixels == {<<y, x>> : y \in DOMAIN fn.pixels, x \in DOMAIN fn.pixels[1]}

\* C19: the conversion yields black or white pixels only, keeps white
\* white and black black, and turns the pixels of one colour, such as the
\* light gray band, into pixels of one level: no dithering.
C19_TwoLevelNoDither ==
    MonoDone =>
        /\ \A p \in Pixels :
              /\ fn.out[p[1]][p[2]] \in {0, 255}
              /\ fn.pixels[p[1]][p[2]] = WHITE => fn.out[p[1]][p[2]] = 255
              /\ fn.pixels[p[1]][p[2]] = BLACK => fn.out[p[1]][p[2]] = 0
        /\ \A p, q \in Pixels :
              fn.pixels[p[1]][p[2]] = fn.pixels[q[1]][q[2]]
                  => fn.out[p[1]][p[2]] = fn.out[q[1]][q[2]]

----------------------------------------------------------------------------
(* Properties of the renderer object and of the empty goal list *)

\* C16: a render call with an empty goal list raises nothing and writes an
\* image of the canvas size asked for that has the header, the band and
\* the time marker, and neither goal rows nor day ticks.
C16_EmptyListRenders ==
    (pc = "done" /\ calls > 0 /\ goals = <<>>) =>
        /\ result.kind = "return"
        /\ LET img == saved[result.filename]
           IN  /\ img.call = calls
               /\ img.width = fn.width /\ img.height = fn.height
               /\ img.header.divider.xy[3] = img.width - X_MARGIN
               /\ img.midweek.fill = "#d0d0d0"
               /\ img.marker.x \in (X_MARGIN + 2)..(img.width - X_MARGIN - 2)
               /\ img.rows = <<>>
               /\ img.ticks = <<>>

\* C17: when discovery returns no goals, the filename render_dashboard
\* returns names an image file that has been written.
C17_NoGoalsFileExists ==
    (pc = "done" /\ goals = <<>> /\ result.kind = "return") =>
        result.filename \in DOMAIN saved

\* C18: once _load_fonts has returned, the font table holds all four
\* roles, whatever files were found and whichever load failed, and no
\* render fails for want of a font.
C18_AllFontRolesPresent ==
    /\ fonts # {} => fonts = FontRoles
    /\ result # Raise("KeyError")

\* C20: no render call replaces or reuses the output file of another:
\* a file once written keeps its image.
C20_OutputsNeverOverwritten ==
    [][\A f \in DOMAIN saved :
          f \in DOMAIN saved' /\ saved'[f] = saved[f]]_vars

----------------------------------------------------------------------------
(* Discovery, the layout of the rows and the marker of one goal, applied   *)
(* to drawn inputs                                                         *)

MaxGoals == 10      \* goal lists have at most MaxGoals goals

RECURSIVE GCD(_, _)
GCD(a, b) == IF b = 0 THEN a ELSE GCD(b, a % b)

\* a / b in lowest terms, for a >= 0 and b > 0
RatQuot(a, b) ==
    LET n == a.num * b.den
        d == a.den * b.num
        g == GCD(n, d)
    IN  Rat(n \div g, d \div g)

UnitCalls ==
    [op : {"discover"}, done : {FALSE}, labels : LabelLists,
     entities : EntityLists]
    \cup [op : {"crossing"}, done : {FALSE}, weekly_target : WeeklyTargets,
          hours_offset : HoursOffsets, width : {100, 800}]
    \cup [op : {"layout"}, done : {FALSE}, n : 1..MaxGoals]

InitUnit ==
    /\ fn \in UnitCalls
    /\ now \in IF fn.op = "crossing" THEN Instants ELSE {PERIOD_ANCHOR}
    /\ goals = <<>>
    /\ fonts = FontRoles
    /\ ProgIdle
    /\ db = {}

\* discover_goals on the labels and entities the remote source returned
UnitDiscover ==
    /\ fn.op = "discover" /\ ~fn.done
    /\ fn' = [fn EXCEPT !.done = TRUE] @@
             [out |-> discover_goals(fn.labels, fn.entities)]
    /\ UNCHANGED <<now, progVars>>

\* one refresh at one clock read: the target_by_now calculate_progress
\* stores for a goal (history.py lines 77-79), and the x the renderer
\* computes for the time marker (renderer.py lines 110-113 and 338-339)
UnitCrossing ==
    /\ fn.op = "crossing" /\ ~fn.done
    /\ LET period_target == PeriodTarget(fn.weekly_target)
           tbn == calculate_target_by_now(period_target,
                      get_day_of_period(now), fn.hours_offset, now)
           tf == time_fraction(now, get_current_period(now).start)
           bar_width == fn.width - X_MARGIN * 2
       IN  fn' = [fn EXCEPT !.done = TRUE] @@
                 [period_target |-> period_target,
                  target_by_now |-> tbn,
                  bar_width |-> bar_width,
                  marker_x |-> X_MARGIN + IntOfProduct(tf, bar_width),
                  out |-> draw_time_indicator(tf, fn.width, CANVAS_HEIGHT)]
    /\ UNCHANGED <<now, progVars>>

\* _draw_goals on a list of fn.n goals and the default canvas
UnitLayout ==
    /\ fn.op = "layout" /\ ~fn.done
    /\ LET gs == [i \in 1..fn.n |->
                    RenderGoal("counter.a", "Gym", Rat(4, 1), None, 3)]
       IN  fn' = [fn EXCEPT !.done = TRUE] @@
                 [width |-> 800, height |-> CANVAS_HEIGHT,
                  out |-> draw_goals(gs, 800, CANVAS_HEIGHT)]
    /\ UNCHANGED <<now, progVars>>

NextUnit == UnitDiscover \/ UnitCrossing \/ UnitLayout

SpecUnit == InitUnit /\ [][NextUnit]_vars

----------------------------------------------------------------------------
(* Properties of discovery *)

DiscoverDone == fn.op = "discover" /\ fn.done

\* C23: discovery rejects malformed goal configuration: a 'goal_' label
\* whose description is empty, is not valid JSON, is JSON that is not an
\* object, or lacks a numeric weekly_target above 0 yields no goal, and
\* discovery still returns the goals of the other labels; every goal
\* returned has a weekly_target above 0.
C23_MalformedConfigRejected ==
    DiscoverDone =>
        /\ fn.out.kind = "return"
        /\ fn.out.goals = GoalsOf(fn.entities, GoalConfigs(fn.labels))
        /\ \A i \in DOMAIN fn.out.goals :
              fn.out.goals[i].config.weekly_target.num > 0

----------------------------------------------------------------------------
(* Properties of the dividers, the marker of a goal and the row layout *)

CrossingDone == fn.op = "crossing" /\ fn.done

LayoutDone == fn.op = "layout" /\ fn.done

\* the top of row i, the bottom of its bar, and the space for the rows
RowTop(i) == fn.out.rows[i].name_xy[2]
BarBottom(i) == fn.out.rows[i].bar_y + BAR_HEIGHT
AVAILABLE_HEIGHT == CANVAS_HEIGHT - HEADER_HEIGHT - BOTTOM_MARGIN

\* the rows lie where the spacing puts them and no bar reaches into the
\* next row or below the bottom margin
RowsDisjoint ==
    \A i \in 1..fn.n :
        /\ RowTop(i) = HEADER_HEIGHT + ((i - 1) * AVAILABLE_HEIGHT) \div fn.n
        /\ BarBottom(i) = RowTop(i) + BAR_OFFSET + BAR_HEIGHT
        /\ BarBottom(i) <= IF i < fn.n THEN RowTop(i + 1)
                           ELSE CANVAS_HEIGHT - BOTTOM_MARGIN

\* C26 as stated: for every number n >= 1 of goals on the default canvas,
\* row i starts at HEADER_HEIGHT + floor(i * (height - HEADER_HEIGHT -
\* BOTTOM_MARGIN) / n), and the bottom of its bar is not below the top of
\* the next row, nor, for the last row, below height - BOTTOM_MARGIN.
C26_RowsNeverOverlap ==
    LayoutDone => RowsDisjoint

\* the most goals whose rows of BAR_OFFSET + BAR_HEIGHT pixels fit
FITTING_GOALS == AVAILABLE_HEIGHT \div (BAR_OFFSET + BAR_HEIGHT)

\* C26, amended: the rows start where the spacing puts them for every n;
\* the bars keep clear of the next row and of the bottom margin exactly
\* when n is at most 9.
C26_RowsDisjointUpToNine ==
    LayoutDone =>
        /\ \A i \in 1..fn.n :
              RowTop(i) = HEADER_HEIGHT + ((i - 1) * AVAILABLE_HEIGHT) \div fn.n
        /\ FITTING_GOALS = 9
        /\ RowsDisjoint <=> fn.n <= FITTING_GOALS

C26_Witness ==
    /\ LayoutDone
    /\ fn.n = 9
    /\ RowTop(9) = 415
    /\ BarBottom(9) = 457

----------------------------------------------------------------------------
(* Properties of the connection of a refresh *)

\* C27: every render_dashboard call that opened a connection has closed it
\* when the call ends, whether it returns, returns early for an empty goal
\* list, or fails at any step; and a call starts with a client of its own
\* that is not connected, so no connection passes from one refresh to the
\* next.
C27_ConnectionClosedAtEnd ==
    pc \in {"idle", "done", "connect"} => ~conn

\* a call whose connection was open when calculate_progress raised
C27_Witness ==
    /\ pc = "done"
    /\ goals # <<>>
    /\ result = Raise("AttributeError")
    /\ ~conn

----------------------------------------------------------------------------
(* One HAClient (app/ha/client.py) and the remote source it talks to: the  *)
(* caller connects, sends commands one after the other and disconnects;   *)
(* the remote answers, sends other messages, closes the socket or stays   *)
(* silent.                                                                 *)

MaxCommands == 3    \* send_command calls in one behaviour
MaxDeliveries == 3  \* messages the remote delivers in one behaviour

\* what the remote may deliver: the result message of some command, with or
\* without a result, or a message that carries no id
Messages ==
    [id : 0..(MaxCommands + 1), success : BOOLEAN,
     result : {"None", "labels", "states"}]

\* response.get("result", {})
ResultOf(response) ==
    IF response.result = "None" THEN "{}" ELSE response.result

Returned(value) == [kind |-> "returned", value |-> value]

matches_any(response, message_id) == TRUE

\* the test of line 94
matches_id(response, message_id) == response.id = message_id

InitClient ==
    /\ now = PERIOD_ANCHOR
    /\ fn = NoCall
    /\ goals = <<>>
    /\ fonts = FontRoles
    /\ ProgIdle
    /\ db = {}

\* connect, lines 36-61: the socket does not open, or it opens and the
\* handshake fails, or the client is authenticated
HC_Connect ==
    /\ pc = "idle"
    /\ ~conn
    /\ \/ conn' = FALSE /\ result' = Raise("ConnectionError")
       \/ conn' = TRUE /\ result' = Raise("Exception")
       \/ conn' = TRUE /\ result' = Returned("None")
    /\ UNCHANGED <<now, ticks, calls, pc, goals, states, idx, day_of_period,
                   cur_count, period, saved, hist, fn, fonts, image>>
    /\ UNCHANGED <<client, db, req, resp>>

\* disconnect, lines 63-68
HC_Disconnect ==
    /\ pc = "idle"
    /\ conn
    /\ conn' = FALSE
    /\ result' = Returned("None")
    /\ UNCHANGED <<now, ticks, calls, pc, goals, states, idx, day_of_period,
                   cur_count, period, saved, hist, fn, fonts, image>>
    /\ UNCHANGED <<client, db, req, resp>>

\* send_command, lines 81-88: the test of the socket, the next id, and the
\* message handed to websocket.send, which may find the socket closed
HC_Send ==
    /\ pc = "idle"
    /\ client.commands < MaxCommands
    /\ IF ~conn
       THEN /\ client' = [client EXCEPT !.commands = @ + 1]
            /\ result' = Raise("Exception")
            /\ pc' = pc
       ELSE /\ client' = [client EXCEPT !.commands = @ + 1,
                                        !.message_id = @ + 1,
                                        !.sends = Append(@, client.message_id + 1),
                                        !.discarded = 0]
            /\ \/ pc' = "recv" /\ result' = NoResult
               \/ pc' = "idle" /\ result' = Raise("ConnectionClosed")
    /\ UNCHANGED <<now, ticks, calls, conn, goals, states, idx, day_of_period,
                   cur_count, period, saved, hist, fn, fonts, image>>
    /\ UNCHANGED <<db, req, resp>>

\* send_command, lines 91-101: one turn of the loop on a message the remote
\* delivers
HC_Recv ==
    /\ pc = "recv"
    /\ client.deliveries < MaxDeliveries
    /\ \E response \in Messages :
          IF matches_id(response, client.message_id)
          THEN /\ client' = [client EXCEPT !.deliveries = @ + 1,
                                           !.last = response]
               /\ result' = IF ~response.success THEN Raise("Exception")
                            ELSE Returned(ResultOf(response))
               /\ pc' = "idle"
          ELSE /\ client' = [client EXCEPT !.deliveries = @ + 1,
                                           !.last = response,
                                           !.discarded = @ + 1]
               /\ result' = result
               /\ pc' = "recv"
    /\ UNCHANGED <<now, ticks, calls, conn, goals, states, idx, day_of_period,
                   cur_count, period, saved, hist, fn, fonts, image>>
    /\ UNCHANGED <<db, req, resp>>

\* send_command, line 92: the remote has closed the socket and recv raises
HC_Closed ==
    /\ pc = "recv"
    /\ result' = Raise("ConnectionClosed")
    /\ pc' = "idle"
    /\ UNCHANGED <<now, ticks, calls, conn, goals, states, idx, day_of_period,
                   cur_count, period, saved, hist, fn, fonts, image>>
    /\ UNCHANGED <<client, db, req, resp>>

\* the steps of the caller; HC_Recv and HC_Closed are the remote's to take
CallerNext == HC_Connect \/ HC_Send \/ HC_Disconnect

NextClient == HC_Connect \/ HC_Send \/ HC_Disconnect \/ HC_Recv \/ HC_Closed

SpecClient == InitClient /\ [][NextClient]_vars

\* the event loop runs the caller's steps; when the remote delivers or
\* closes is for the remote to decide
SpecClientLive == SpecClient /\ WF_vars(CallerNext)

----------------------------------------------------------------------------
(* Properties of the client *)

\* the ids sent are 1, 2, 3, ... in that order
IdsInOrder ==
    /\ Len(client.sends) = client.message_id
    /\ \A k \in DOMAIN client.sends : client.sends[k] = k

\* a value send_command returned (connect and disconnect return None) is
\* the result of a successful response that carries the id sent
ReturnsMatching ==
    (result.kind = "returned" /\ result.value # "None") =>
        /\ client.last.id = client.message_id
        /\ client.last.success
        /\ result.value = ResultOf(client.last)

\* a step that starts a send_command call
CallStarts == client'.commands = client.commands + 1

\* a step in which the running call takes a message from the socket
Delivery == client'.deliveries = client.deliveries + 1

\* C28: on one client send_command assigns the ids 1, 2, 3, ..., sends
\* exactly one message per call, and returns only the result of the
\* response that carries the id it sent: responses with another id are
\* discarded and the call keeps waiting, a response with that id and
\* success false raises, and a call on a client that is not connected
\* raises without sending anything and without taking an id.
C28_CommandProtocol ==
    [][/\ IdsInOrder'
       /\ ReturnsMatching'
       /\ CallStarts =>
             IF ~conn
             THEN /\ client'.message_id = client.message_id
                  /\ client'.sends = client.sends
                  /\ result' = Raise("Exception")
                  /\ pc' = "idle"
             ELSE /\ client'.message_id = client.message_id + 1
                  /\ client'.sends = Append(client.sends, client.message_id + 1)
       /\ ~CallStarts =>
             /\ client'.message_id = client.message_id
             /\ client'.sends = client.sends
       /\ Delivery =>
             IF client'.last.id # client.message_id
             THEN /\ pc' = "recv" /\ result' = result
                  /\ client'.discarded = client.discarded + 1
             ELSE /\ pc' = "idle"
                  /\ ~client'.last.success => result' = Raise("Exception")
                  /\ client'.last.success =>
                        result' = Returned(ResultOf(client'.last))]_vars

\* the second command returned its result after a response with another id
\* had been discarded
C28_Witness ==
    /\ client.sends = <<1, 2>>
    /\ client.discarded > 0
    /\ client.last.id = 2
    /\ pc = "idle"
    /\ result = Returned("states")

\* C22: every refresh finishes in the end, also when the remote never
\* sends a response with the id of the pending command: the wait of
\* send_command is bounded by a timeout.
C22_PendingCommandEnds ==
    (pc = "recv") ~> (pc = "idle")

----------------------------------------------------------------------------
(* The device registry (app/trmnl/database.py) and the endpoints of the    *)
(* service (app/main.py).  The registry calls of a request run without an  *)
(* await between them; the refresh a display or setup request awaits runs  *)
(* as the steps of render_dashboard.                                       *)

MaxRequests == 2    \* requests answered in one behaviour
MaxApiTicks == 1    \* clock advances between the requests of one behaviour

\* what the remote source holds while the service answers requests: no
\* label, a goal label with its entity, or a goal label whose description
\* is a JSON array
ApiLabelLists ==
    {<<>>,
     <<[label_id |-> "l1", name |-> "goal_a",
        description |-> [kind |-> "object",
                         weekly_target |-> [type |-> "number",
                                            val |-> Rat(4, 1)]]]>>,
     <<[label_id |-> "l1", name |-> "goal_a",
        description |-> [kind |-> "array"]]>>}
ApiEntityLists == {<<EntityA>>}

\* an Optional value: None, or a value
Null == [null |-> TRUE]
Some(v) == [null |-> FALSE, val |-> v]

Macs == {"m1", "m2"}
ApiKeys == {"k1", "k2"}             \* what generate_api_key may return
FriendlyIds == {"f1"}               \* what generate_friendly_id may return
\* the FW-Version and Battery-Voltage a request carries, the voltage in
\* tenths of a volt
Telemetry ==
    {[firmware_version |-> Null, battery_voltage |-> Null],
     [firmware_version |-> Some(""), battery_voltage |-> Some(0)],
     [firmware_version |-> Some("1.1"), battery_voltage |-> Some(41)]}

\* the Device setup_endpoint builds (main.py lines 195-201)
Device(mac_address, api_key, friendly_id, created_at, firmware_version) ==
    [mac_address |-> mac_address, api_key |-> api_key,
     friendly_id |-> friendly_id, created_at |-> created_at,
     last_seen |-> Null, firmware_version |-> firmware_version,
     battery_voltage |-> Null]

NoDevice == [found |-> FALSE]

get_device_never(rows, mac_address) == NoDevice

\* get_device: the row of the MAC address, or None
get_device(rows, mac_address) ==
    IF \E r \in rows : r.mac_address = mac_address
    THEN [found |-> TRUE,
          device |-> CHOOSE r \in rows : r.mac_address = mac_address]
    ELSE NoDevice

\* create_device: INSERT of the four columns named; mac_address is the
\* PRIMARY KEY of the table (line 28), the other columns stay NULL
create_device(rows, device) ==
    IF \E r \in rows : r.mac_address = device.mac_address
    THEN [kind |-> "raise", exc |-> "IntegrityError", rows |-> rows]
    ELSE [kind |-> "return",
          rows |-> rows \cup {[device EXCEPT !.firmware_version = Null]}]

update_device_status_all(rows, mac_address, last_seen, firmware_version, battery_voltage) ==
    {IF r.mac_address # mac_address THEN r
     ELSE [r EXCEPT !.last_seen = last_seen,
                    !.firmware_version = firmware_version,
                    !.battery_voltage = battery_voltage] : r \in rows}

\* update_device_status: UPDATE of the columns whose argument is truthy, on
\* the rows of the MAC address
update_device_status(rows, mac_address, last_seen, firmware_version, battery_voltage) ==
    LET set_last_seen == ~last_seen.null
        set_firmware == ~firmware_version.null /\ firmware_version.val # ""
        set_battery == ~battery_voltage.null /\ battery_voltage.val # 0
    IN  {IF r.mac_address # mac_address THEN r
         ELSE [r EXCEPT
                 !.last_seen = IF set_last_seen THEN last_seen ELSE @,
                 !.firmware_version =
                     IF set_firmware THEN firmware_version ELSE @,
                 !.battery_voltage =
                     IF set_battery THEN battery_voltage ELSE @] : r \in rows}

\* the response FastAPI sends when the endpoint raises
ServerError(request, exc) ==
    [endpoint |-> request.endpoint, status |-> "error", exc |-> exc]

\* DisplayResponse (main.py lines 147-157)
DisplayResponse(request, filename) ==
    [endpoint |-> "display", status |-> "ok", filename |-> filename]

\* SetupResponse (main.py lines 184-190 and 212-218), with the address it
\* is sent to
SetupResponse(request) ==
    [endpoint |-> "setup", mac |-> request.mac, status |-> "ok",
     api_key |-> request.api_key, friendly_id |-> request.friendly_id]

\* the answer of log_endpoint (main.py line 241), with the address and
\* the values the request supplied
LogResponse(mac, firmware_version, battery_voltage) ==
    [endpoint |-> "log", status |-> "ok", mac |-> mac,
     firmware_version |-> firmware_version,
     battery_voltage |-> battery_voltage]

\* display_endpoint, lines 126-136: the status of a known device is updated
API_Display ==
    /\ req = NoRequest
    /\ pc = "idle"
    /\ calls < MaxCalls
    /\ Len(resp) < MaxRequests
    /\ \E mac \in Macs, t \in Telemetry :
          /\ db' = IF get_device(db, mac).found
                   THEN update_device_status(db, mac, Some(now),
                            t.firmware_version, t.battery_voltage)
                   ELSE db
          /\ req' = [endpoint |-> "display", mac |-> mac,
                     firmware_version |-> t.firmware_version,
                     battery_voltage |-> t.battery_voltage]
    /\ UNCHANGED <<now, ticks, calls, pc, conn, goals, states, idx,
                   day_of_period, cur_count, period, result, saved, hist, fn,
                   fonts, image, client, resp>>

\* setup_endpoint, lines 174-203: the credentials of the device that
\* exists, or a new device with generated credentials
API_Setup ==
    /\ req = NoRequest
    /\ pc = "idle"
    /\ calls < MaxCalls
    /\ Len(resp) < MaxRequests
    /\ \E mac \in Macs, t \in Telemetry :
          LET existing_device == get_device(db, mac)
          IN  IF existing_device.found
              THEN /\ req' = [endpoint |-> "setup", mac |-> mac,
                              api_key |-> existing_device.device.api_key,
                              friendly_id |->
                                  existing_device.device.friendly_id]
                   /\ UNCHANGED <<db, resp>>
              ELSE \E api_key \in ApiKeys, friendly_id \in FriendlyIds :
                      LET new_device ==
                              Device(mac, api_key, friendly_id, now,
                                     t.firmware_version)
                          created == create_device(db, new_device)
                          request == [endpoint |-> "setup", mac |-> mac,
                                      api_key |-> api_key,
                                      friendly_id |-> friendly_id]
                      IN  /\ db' = created.rows
                          /\ IF created.kind = "raise"
                             THEN /\ resp' = Append(resp,
                                        ServerError(request, created.exc))
                                  /\ req' = req
                             ELSE /\ resp' = resp
                                  /\ req' = request
    /\ UNCHANGED <<now, ticks, calls, pc, conn, goals, states, idx,
                   day_of_period, cur_count, period, result, saved, hist, fn,
                   fonts, image, client>>

\* log_endpoint, lines 221-241
API_Log ==
    /\ req = NoRequest
    /\ pc = "idle"
    /\ Len(resp) < MaxRequests
    /\ \E mac \in Macs, t \in Telemetry :
          /\ db' = update_device_status(db, mac, Some(now),
                        t.firmware_version, t.battery_voltage)
          /\ resp' = Append(resp, LogResponse(mac, t.firmware_version,
                                              t.battery_voltage))
    /\ UNCHANGED <<now, ticks, calls, pc, conn, goals, states, idx,
                   day_of_period, cur_count, period, result, saved, hist, fn,
                   fonts, image, client, req>>

\* main.py lines 139, 181 and 207: the request awaits render_dashboard
API_Render ==
    /\ req # NoRequest
    /\ pc = "idle"
    /\ RD_Start

\* the response: built from what render_dashboard returned (main.py lines
\* 141-157, 182-190, 208-218), or the error it raised, which no endpoint
\* catches; the locals of the call are gone.  The outcome of the refresh is
\* noted beside the response
API_Respond ==
    /\ req # NoRequest
    /\ pc = "done"
    /\ resp' = Append(resp,
                  (IF result.kind = "raise" THEN ServerError(req, result.exc)
                   ELSE IF req.endpoint = "display"
                        THEN DisplayResponse(req, result.filename)
                        ELSE SetupResponse(req))
                  @@ [refresh |-> result])
    /\ req' = NoRequest
    /\ pc' = "idle"
    /\ goals' = <<>>
    /\ result' = NoResult
    /\ UNCHANGED <<now, ticks, calls, conn, states, idx, day_of_period,
                   cur_count, period, saved, hist, fn, fonts, image, client,
                   db>>

\* time passes between two requests
API_Tick ==
    /\ req = NoRequest
    /\ pc = "idle"
    /\ ticks < MaxApiTicks
    /\ now' = now + HOUR
    /\ ticks' = ticks + 1
    /\ UNCHANGED <<calls, pc, conn, goals, states, idx, day_of_period,
                   cur_count, period, result, saved, hist, fn, fonts, image,
                   apiVars>>

\* main.py lines 65-71 of the refresh a request awaits
API_Discover == RD_DiscoverOver(ApiLabelLists, ApiEntityLists)

\* the devices table the service finds when it starts: empty, or with the
\* row of a device that an earlier run provisioned and heard from
StoredRow ==
    [mac_address |-> "m1", api_key |-> "k1", friendly_id |-> "f1",
     created_at |-> PERIOD_ANCHOR - DAY,
     last_seen |-> Some(PERIOD_ANCHOR - HOUR),
     firmware_version |-> Some("1.0"), battery_voltage |-> Some(39)]

InitApi ==
    /\ now = PERIOD_ANCHOR
    /\ fn = NoCall
    /\ goals = <<>>
    /\ fonts = FontRoles
    /\ ProgIdle
    /\ db \in {{}, {StoredRow}}

NextApi ==
    \/ API_Tick
    \/ API_Display
    \/ API_Setup
    \/ API_Log
    \/ API_Render
    \/ RD_Connect
    \/ API_Discover
    \/ CP_Enter
    \/ CP_GetStates
    \/ CP_LoopHead
    \/ CP_Target
    \/ RD_Finally
    \/ API_Respond

SpecApi == InitApi /\ [][NextApi]_vars

----------------------------------------------------------------------------
(* Properties of the endpoints and of the registry *)

\* the display requests answered with an image before response k, and the
\* last of them
ServedBefore(k) ==
    {j \in 1..(k - 1) : resp[j].endpoint = "display" /\ resp[j].status = "ok"}
LastServedBefore(k) ==
    CHOOSE j \in ServedBefore(k) : \A i \in ServedBefore(k) : i <= j

\* the refresh of response k could not reach the remote source or was
\* refused by it
RemoteFailedAt(k) ==
    resp[k].refresh \in {Raise("Exception"), Raise("ConnectionError")}

\* C21: a display request whose refresh finds the remote source unreachable
\* or is refused by it, after a display request that was served, does not
\* fail: it is answered with the image served last, as a stale fallback.
C21_StaleFallback ==
    \A k \in DOMAIN resp :
        (/\ resp[k].endpoint = "display"
         /\ ServedBefore(k) # {}
         /\ RemoteFailedAt(k))
        => /\ resp[k].status = "ok"
           /\ resp[k].filename = resp[LastServedBefore(k)].filename

\* every MAC address has at most one row
UniqueMac ==
    \A r1, r2 \in db : r1.mac_address = r2.mac_address => r1 = r2

\* the setup requests answered with credentials
SetupAnswers == {k \in DOMAIN resp :
                    resp[k].endpoint = "setup" /\ resp[k].status = "ok"}

\* a step in which the service takes up a setup request
SetupStarts(mac) ==
    /\ req = NoRequest
    /\ req'.endpoint = "setup"
    /\ req'.mac = mac

\* C29: provisioning is idempotent per MAC address: the registry never
\* holds two records for one address, the first setup request of an
\* address creates its record with generated credentials, and every later
\* one is answered with the api_key and friendly_id of that record and
\* neither creates nor changes a record.
C29_SetupIdempotent ==
    [][/\ UniqueMac'
       /\ \A k \in SetupAnswers' :
             \E r \in db' : /\ r.mac_address = resp'[k].mac
                            /\ r.api_key = resp'[k].api_key
                            /\ r.friendly_id = resp'[k].friendly_id
       /\ \A k \in DOMAIN resp' : resp'[k].status = "error" =>
             resp'[k].exc # "IntegrityError"
       /\ \A r \in db : \E r2 \in db' :
             /\ r2.mac_address = r.mac_address
             /\ r2.api_key = r.api_key
             /\ r2.friendly_id = r.friendly_id
             /\ r2.created_at = r.created_at
       /\ \A mac \in Macs : SetupStarts(mac) =>
             IF get_device(db, mac).found
             THEN /\ db' = db
                  /\ req'.api_key = get_device(db, mac).device.api_key
                  /\ req'.friendly_id = get_device(db, mac).device.friendly_id
             ELSE \E api_key \in ApiKeys, friendly_id \in FriendlyIds :
                     db' = db \cup {Device(mac, api_key, friendly_id, now,
                                           Null)}]_vars

\* two setup requests of one address that the registry did not hold, the
\* second after the clock moved, were answered with the same credentials,
\* those of the one record
C29_Witness ==
    /\ Len(resp) = 2
    /\ resp[1].endpoint = "setup" /\ resp[1].status = "ok"
    /\ resp[1].mac = "m2"
    /\ resp[2] = resp[1]
    /\ resp[2].refresh = Return("no-goals")
    /\ ticks > 0
    /\ \E r \in db : /\ r.mac_address = "m2"
                     /\ r.api_key = resp[2].api_key
                     /\ r.created_at = PERIOD_ANCHOR
    /\ \A r \in db : r.mac_address = "m2" => r.created_at = PERIOD_ANCHOR


\* a step in which the service takes up a display request, or takes up and
\* answers a log request, for the address with the values supplied
DisplayStarts(mac, t) ==
    /\ req = NoRequest
    /\ req' = [endpoint |-> "display", mac |-> mac,
               firmware_version |-> t.firmware_version,
               battery_voltage |-> t.battery_voltage]
LogAnswered(mac, t) ==
    /\ Len(resp') = Len(resp) + 1
    /\ resp'[Len(resp')] = LogResponse(mac, t.firmware_version,
                                       t.battery_voltage)

\* the registry after the step has the rows it had: those of other
\* addresses as they were, the row of mac with its identity and
\* credentials, and its status columns as they were or as supplied
OnlyStatusOf(mac, t) ==
    /\ Cardinality(db') = Cardinality(db)
    /\ \A r \in db : \E r2 \in db' :
          /\ r2.mac_address = r.mac_address
          /\ r2.api_key = r.api_key
          /\ r2.friendly_id = r.friendly_id
          /\ r2.created_at = r.created_at
          /\ r.mac_address # mac => r2 = r
          /\ r2.last_seen \in {r.last_seen, Some(now)}
          /\ r2.firmware_version \in {r.firmware_version, t.firmware_version}
          /\ r2.battery_voltage \in {r.battery_voltage, t.battery_voltage}
          /\ t.firmware_version = Null =>
                r2.firmware_version = r.firmware_version
          /\ t.battery_voltage = Null =>
                r2.battery_voltage = r.battery_voltage

\* C30: display and log requests never create a record and never change
\* mac_address, api_key, friendly_id or created_at; for a registered
\* address they can only overwrite last_seen, firmware_version and
\* battery_voltage with the values supplied, a value not supplied leaving
\* the stored one; for an address not registered the registry stays as it
\* is.
C30_StatusOnlyUpdates ==
    [][/\ \A mac \in Macs, t \in Telemetry :
             (DisplayStarts(mac, t) \/ LogAnswered(mac, t)) =>
                 /\ OnlyStatusOf(mac, t)
                 /\ ~get_device(db, mac).found => db' = db
       /\ (req # NoRequest /\ req.endpoint = "display") => db' = db]_vars

\* the stored record has taken firmware 1.1 and 4.1 V from one log
\* request and kept both through a later one that supplied neither, which
\* moved last_seen alone
C30_Witness ==
    /\ Len(resp) = 2
    /\ resp[1] = LogResponse("m1", Some("1.1"), Some(41))
    /\ resp[2] = LogResponse("m1", Null, Null)
    /\ [StoredRow EXCEPT !.last_seen = Some(now),
                         !.firmware_version = Some("1.1"),
                         !.battery_voltage = Some(41)] \in db
    /\ now > PERIOD_ANCHOR

====
